---- MODULE Spec2Model ----
(***************************************************************************)
(* Zac the Ripper: the folder watcher (MKVHandler on a watchdog Observer)  *)
(* and the rip sessions that drive it (DVDConverterApp), as a state        *)
(* machine.  The three programs of the repository are modelled: the main   *)
(* program zac_the_ripper_v5.py ("v5") and, under experimental/,           *)
(* zac_the_ripper_v5_viewerv2.py ("viewerv2") and                          *)
(* zac_the_ripper_v5_viewerv4.py ("viewerv4").  Every click on the start   *)
(* button opens a session of its own.  Strings are sequences of            *)
(* one-character strings so that endswith, basename, splitext and strftime *)
(* are computed, not assumed.                                              *)
(***************************************************************************)
EXTENDS Integers, Sequences, FiniteSets, TLC

(* ------------------------------ bounds --------------------------------- *)
\* total number of events from outside during a run: clicks on the start
\* button, entries created, entries deleted, seconds ticking by on the wall
\* clock, and failed readiness probes
MaxEvents == 3

(* ------------------------- program constants --------------------------- *)
\* time.sleep(10) between two readiness probes
PollInterval == 10

\* '.mkv', the suffix on_created filters on
MkvExt == <<".", "m", "k", "v">>
\* ".mov", the suffix of the output file name
MovExt == <<".", "m", "o", "v">>

(* ------------------------------ inputs --------------------------------- *)
\* mkv_output, the watched folder, and mov_output, the output folder
MkvOutput == <<"/", "r", ".", "d">>
MovOutput == <<"/", "o">>

\* names of regular files the environment may create in the watched folder
FileNames ==
  { <<"m", "o", "v", "i", "e", ".", "m", "k", "v">>,
    <<".", "m", "k", "v">>,
    <<"m", "o", "v", "i", "e", ".", "m", "k", "v", ".", "p">> }
\* names of directories the environment may create in the watched folder
DirNames == { <<"s", ".", "m", "k", "v">> }
Names == FileNames \cup DirNames

(* --------------------------- string functions -------------------------- *)
\* str.endswith
EndsWith(s, suf) ==
  /\ Len(s) >= Len(suf)
  /\ SubSeq(s, Len(s) - Len(suf) + 1, Len(s)) = suf

\* str.rfind of a one-character string: the last index (1-based) or 0
RFind(s, ch) ==
  LET hits == { i \in 1..Len(s) : s[i] = ch }
  IN  IF hits = {} THEN 0 ELSE CHOOSE i \in hits : \A j \in hits : j <= i

\* os.path.join(a, b) on POSIX
PathJoin(a, b) ==
  IF Len(b) > 0 /\ b[1] = "/" THEN b
  ELSE IF Len(a) = 0 \/ a[Len(a)] = "/" THEN a \o b
  ELSE a \o <<"/">> \o b

\* os.path.basename on POSIX: what follows the last "/"
Basename(p) == SubSeq(p, RFind(p, "/") + 1, Len(p))

\* os.path.splitext(p)[0] on POSIX: cut at the last dot, unless that dot is
\* one of the leading dots of the file name
SplitextRoot(p) ==
  LET sep == RFind(p, "/")
      dot == RFind(p, ".")
  IN  IF dot > sep /\ \E k \in (sep + 1)..(dot - 1) : p[k] # "."
      THEN SubSeq(p, 1, dot - 1)
      ELSE p

(* ------------------------------ the clock ------------------------------ *)
\* datetime.datetime.now(): the fields of the local wall clock
IsLeap(y) == (y % 4 = 0 /\ y % 100 # 0) \/ y % 400 = 0
DaysInMonth(y, m) ==
  IF m = 2 THEN (IF IsLeap(y) THEN 29 ELSE 28)
  ELSE IF m \in {4, 6, 9, 11} THEN 30 ELSE 31

NextSecond(c) ==
  IF c.s < 59 THEN [c EXCEPT !.s = c.s + 1]
  ELSE IF c.mi < 59 THEN [c EXCEPT !.s = 0, !.mi = c.mi + 1]
  ELSE IF c.h < 23 THEN [c EXCEPT !.s = 0, !.mi = 0, !.h = c.h + 1]
  ELSE IF c.D < DaysInMonth(c.Y, c.Mo)
       THEN [c EXCEPT !.s = 0, !.mi = 0, !.h = 0, !.D = c.D + 1]
  ELSE IF c.Mo < 12
       THEN [c EXCEPT !.s = 0, !.mi = 0, !.h = 0, !.D = 1, !.Mo = c.Mo + 1]
  ELSE [c EXCEPT !.s = 0, !.mi = 0, !.h = 0, !.D = 1, !.Mo = 1, !.Y = c.Y + 1]

\* comparison of two datetime values
ClockKey(c) == <<c.Y, c.Mo, c.D, c.h, c.mi, c.s>>
ClockLeq(a, b) ==
  \A i \in 1..6 :
    (\A j \in 1..(i - 1) : ClockKey(a)[j] = ClockKey(b)[j])
      => ClockKey(a)[i] <= ClockKey(b)[i]

RECURSIVE AddSeconds(_, _)
AddSeconds(c, n) == IF n = 0 THEN c ELSE AddSeconds(NextSecond(c), n - 1)

\* the wall-clock instants a run may start at
StartClocks ==
  { [Y |-> 2024, Mo |-> 3, D |-> 1, h |-> 10, mi |-> 20, s |-> 30],
    [Y |-> 2024, Mo |-> 12, D |-> 31, h |-> 23, mi |-> 59, s |-> 50] }

\* one decimal digit as a character
DigitChar(d) == <<"0", "1", "2", "3", "4", "5", "6", "7", "8", "9">>[d + 1]

\* a non-negative number as decimal digits, zero-padded to width w
RECURSIVE ZeroPad(_, _)
ZeroPad(n, w) ==
  IF w = 0 THEN << >> ELSE ZeroPad(n \div 10, w - 1) \o <<DigitChar(n % 10)>>

\* strftime("%Y%m%d%H%M%S")
Strftime(c) ==
  ZeroPad(c.Y, 4) \o ZeroPad(c.Mo, 2) \o ZeroPad(c.D, 2)
    \o ZeroPad(c.h, 2) \o ZeroPad(c.mi, 2) \o ZeroPad(c.s, 2)

(* ------------------------------- state --------------------------------- *)
VARIABLES
  variant,      \* "v5", "viewerv2" or "viewerv4": which program runs
  exclusive,    \* whether a writer's open handle makes open(path, 'rb') fail
  dirOK,        \* whether the watched folder exists
  outOK,        \* whether the output folder exists
  clock,        \* datetime.datetime.now()
  nEvents,      \* history: number of events from outside so far
  fs,           \* each name in the watched folder: "absent", "writing", "closed"
  made,         \* history: how often each entry was created
  seen,         \* history: how often the creation of each entry was queued
                \* by at least one Observer
  status_label, \* text of the Tk status label
  afterQueue,   \* callbacks registered with master.after, not yet run
  sessions,     \* one record per click that started a session, in order:
                \*   bgpc  position of the thread the click started
                \*   wdpc  position of the code running setup_watchdog
                \*   rip   the session's makemkvcon subprocess
                \*   obs   the session's watchdog Observer and its thread
                \*   queue that Observer's event queue
  calls,        \* on_created invocations that have not returned
  ready,        \* per entry, the number of FileReadyEvents: successful
                \* returns of wait_until_file_is_ready
  log,          \* entries written through the logger
  playing,      \* viewerv2: the path last given to VLCPlayer.play_video
  nFailed       \* history: number of ffmpeg runs that exited non-zero

vars ==
  << variant, exclusive, dirOK, outOK, clock, nEvents, fs, made, seen,
     status_label, afterQueue, sessions, calls, ready, log,
     playing, nFailed >>

envVars == << variant, exclusive, dirOK, outOK >>
uiVars == << status_label, afterQueue >>
fsVars == << fs, made, seen >>
handlerVars == << calls, ready, log, playing, nFailed >>

NoClock == [Y |-> 0, Mo |-> 0, D |-> 0, h |-> 0, mi |-> 0, s |-> 0]

\* event.src_path of an entry of the watched folder
SrcPath(n) == PathJoin(MkvOutput, n)

\* the sessions started so far
Sessions == 1..Len(sessions)

\* the on_created invocations running on the thread of session i's Observer
CallsOf(i) == { c \in calls : c.obs = i }

Init ==
  /\ variant \in {"v5", "viewerv2", "viewerv4"}
  /\ exclusive \in BOOLEAN
  /\ dirOK \in BOOLEAN
  /\ outOK \in (IF variant = "v5" THEN BOOLEAN ELSE {TRUE})
  /\ clock \in StartClocks
  /\ nEvents = 0
  /\ fs = [n \in Names |-> "absent"]
  /\ made = [n \in Names |-> 0]
  /\ seen = [n \in Names |-> 0]
  /\ status_label = "Ready"
  /\ afterQueue = << >>
  /\ sessions = << >>
  /\ calls = {}
  /\ ready = [n \in Names |-> 0]
  /\ log = {}
  /\ playing = << >>
  /\ nFailed = 0

(* ------------------------------ the UI --------------------------------- *)
\* the state of a session whose thread has just been started
NewSession(pc) ==
  [bgpc |-> pc, wdpc |-> "none", rip |-> "notstarted", obs |-> "none",
   queue |-> << >>]

\* a click on the start button with all fields filled in: run_conversion in
\* v5 and viewerv2, initiate_ripping in viewerv4.  The label changes; then
\*   v5: logging.basicConfig opens the log file in the output folder, which
\*       raises when that folder is missing, and otherwise the
\*       background_conversion thread is started;
\*   viewerv2: the background_conversion thread is started;
\*   viewerv4: a thread that runs makemkvcon is started, and the FrameSampler
\*       is never made because VLCPlayer has no display_frame.
\* Nothing keeps a second click from starting a second session.
RunConversion ==
  /\ nEvents < MaxEvents
  /\ nEvents' = nEvents + 1
  /\ status_label' = "Preparing to process..."
  /\ sessions' =
       IF variant = "v5" /\ ~outOK THEN sessions
       ELSE Append(sessions,
                   NewSession(IF variant = "viewerv4" THEN "makemkv" ELSE "start"))
  /\ UNCHANGED << envVars, clock, fsVars, afterQueue,
                  handlerVars >>

\* update_status_message: master.after(100, ...) registers the label update
UpdateStatusMessage(q, message) == Append(q, message)

\* the Tk main loop runs a callback registered with master.after
TkAfterCallback ==
  /\ afterQueue # << >>
  /\ status_label' = Head(afterQueue)
  /\ afterQueue' = Tail(afterQueue)
  /\ UNCHANGED << envVars, clock, nEvents, fsVars, sessions,
                  handlerVars >>

(* --------------------------- the rip session --------------------------- *)
CompleteMessage == "Conversion process is complete."

\* where setup_watchdog blocks once the observer is started: v5 joins the
\* observer, viewerv2 sleeps in a loop
BlockedAt(v) == IF v = "v5" THEN "join" ELSE "sleeploop"

\* background_conversion begins: v5 starts setup_watchdog on a thread of its
\* own and goes on; viewerv2 calls setup_watchdog itself
BackgroundConversionStart(i) ==
  /\ sessions[i].bgpc = "start"
  /\ sessions' = [sessions EXCEPT
                    ![i].wdpc = "init",
                    ![i].bgpc = IF variant = "v5" THEN "makemkv"
                                ELSE "setup_watchdog"]
  /\ UNCHANGED << envVars, clock, nEvents, fsVars, uiVars,
                  handlerVars >>

\* setup_watchdog up to observer.start().  On a missing folder watchdog either
\* raises from start() or lets its emitter thread die, depending on the build.
SetupWatchdogStart(i) ==
  /\ sessions[i].wdpc = "init"
  /\ \E raises \in BOOLEAN :
       sessions' =
         IF dirOK \/ ~raises
         THEN [sessions EXCEPT ![i].obs = "running",
                               ![i].wdpc = BlockedAt(variant)]
         ELSE [sessions EXCEPT ![i].wdpc = "dead",
                               ![i].bgpc = IF variant = "v5" THEN @ ELSE "dead"]
  /\ UNCHANGED << envVars, clock, nEvents, fsVars, uiVars,
                  handlerVars >>

\* makemkvcon is launched: by execute_makemkv, which logs first, in v5 and
\* viewerv2; by the thread initiate_ripping started in viewerv4
ExecuteMakemkv(i) ==
  /\ sessions[i].bgpc = "makemkv"
  /\ sessions' = [sessions EXCEPT ![i].rip = "running", ![i].bgpc = "ripwait"]
  /\ log' = IF variant = "viewerv4" THEN log
            ELSE log \cup {[level |-> "info", msg |-> "Starting MakeMKV",
                            file_path |-> MkvOutput, detail |-> << >>]}
  /\ UNCHANGED << envVars, clock, nEvents, fsVars, uiVars,
                  calls, ready, playing, nFailed >>

\* makemkvcon exits.  In v5 and viewerv2 subprocess.run(check=True) returns
\* or raises; in viewerv4 subprocess.run returns whatever the exit status
\* and the thread ends.
MakemkvExit(i) ==
  /\ sessions[i].bgpc = "ripwait"
  /\ sessions[i].rip = "running"
  /\ \/ \A n \in Names : fs[n] # "writing"
     \/ \E j \in Sessions \ {i} : sessions[j].rip = "running"
  /\ \E code \in {0, 1} :
       /\ sessions' =
            [sessions EXCEPT
               ![i].rip = IF code = 0 THEN "ok" ELSE "failed",
               ![i].bgpc = IF variant = "viewerv4" THEN "done"
                           ELSE IF code = 0 THEN "join" ELSE "dead"]
       /\ log' = IF code = 0 /\ variant # "viewerv4"
                 THEN log \cup
                        {[level |-> "info",
                          msg |-> "MakeMKV operation completed successfully",
                          file_path |-> MkvOutput, detail |-> << >>]}
                 ELSE log
  /\ UNCHANGED << envVars, clock, nEvents, fsVars, uiVars,
                  calls, ready, playing, nFailed >>

\* watchdog_thread.join() returns once that thread has ended, and the
\* completion message is posted
JoinAndPostComplete(i) ==
  /\ sessions[i].bgpc = "join"
  /\ sessions[i].wdpc \in {"dead", "returned"}
  /\ afterQueue' = UpdateStatusMessage(afterQueue, CompleteMessage)
  /\ sessions' = [sessions EXCEPT ![i].bgpc = "done"]
  /\ UNCHANGED << envVars, clock, nEvents, fsVars, status_label,
                  handlerVars >>

\* viewerv2: an exception inside the try block of setup_watchdog runs the
\* finally clause, whose first statement is observer.stop()
SleepLoopInterrupted(i) ==
  /\ sessions[i].wdpc = "sleeploop"
  /\ sessions' = [sessions EXCEPT
                    ![i].wdpc = "finally",
                    ![i].obs = IF @ = "running" THEN "stopping" ELSE @]
  /\ UNCHANGED << envVars, clock, nEvents, fsVars, uiVars,
                  handlerVars >>

\* the Observer's thread leaves its loop when it finds the stop request
\* between two dispatches
ObserverThreadExit(i) ==
  /\ sessions[i].obs = "stopping"
  /\ CallsOf(i) = {}
  /\ sessions' = [sessions EXCEPT ![i].obs = "stopped"]
  /\ UNCHANGED << envVars, clock, nEvents, fsVars, uiVars,
                  handlerVars >>

\* observer.join() returns once the Observer's thread has ended
ObserverJoinReturn(i) ==
  /\ sessions[i].wdpc \in {"join", "finally"}
  /\ sessions[i].obs \in {"stopped", "crashed"}
  /\ sessions' = [sessions EXCEPT
                    ![i].wdpc = IF @ = "join" THEN "returned" ELSE "dead",
                    ![i].bgpc = IF variant = "v5" THEN @ ELSE "dead"]
  /\ UNCHANGED << envVars, clock, nEvents, fsVars, uiVars,
                  handlerVars >>

(* --------------------------- the environment --------------------------- *)
IsDir(n) == n \in DirNames

\* whether a writer is at work in the watched folder: in v5 and viewerv4 the
\* entries are made by a running makemkvcon, in viewerv2 (where makemkvcon is
\* never reached) by whatever else writes into the folder while it is watched
WriterActive ==
  \E i \in Sessions :
    IF variant = "viewerv2" THEN sessions[i].obs = "running"
    ELSE sessions[i].rip = "running"

\* an entry appears in the watched folder; every started Observer queues one
\* created-event for it
CreateEntry(n) ==
  /\ dirOK
  /\ WriterActive
  /\ fs[n] = "absent"
  /\ nEvents < MaxEvents
  /\ nEvents' = nEvents + 1
  /\ fs' = [fs EXCEPT ![n] = IF IsDir(n) THEN "closed" ELSE "writing"]
  /\ made' = [made EXCEPT ![n] = made[n] + 1]
  /\ seen' = IF \E i \in Sessions : sessions[i].obs = "running"
             THEN [seen EXCEPT ![n] = seen[n] + 1] ELSE seen
  /\ sessions' =
       [i \in Sessions |->
          IF sessions[i].obs = "running"
          THEN [sessions[i] EXCEPT
                  !.queue = Append(@, [src_path |-> SrcPath(n),
                                       is_directory |-> IsDir(n)])]
          ELSE sessions[i]]
  /\ UNCHANGED << envVars, clock, uiVars, handlerVars >>

\* the writer finishes a file and closes it
CloseFile(n) ==
  /\ fs[n] = "writing"
  /\ fs' = [fs EXCEPT ![n] = "closed"]
  /\ UNCHANGED << envVars, clock, nEvents, made, seen, uiVars, sessions, handlerVars >>

\* a finished entry is removed from the watched folder
DeleteEntry(n) ==
  /\ fs[n] = "closed"
  /\ nEvents < MaxEvents
  /\ nEvents' = nEvents + 1
  /\ fs' = [fs EXCEPT ![n] = "absent"]
  /\ UNCHANGED << envVars, clock, made, seen, uiVars, sessions,
                  handlerVars >>

\* one second passes on the wall clock, whatever the program is doing
Tick ==
  /\ nEvents < MaxEvents
  /\ nEvents' = nEvents + 1
  /\ clock' = NextSecond(clock)
  /\ UNCHANGED << envVars, fsVars, uiVars, sessions,
                  handlerVars >>

(* ----------------------------- MKVHandler ------------------------------ *)
\* a filter that accepts '.mkv' anywhere in the path
MatchesFilterAnywhere(src_path) ==
  \E i \in 1..Len(src_path) :
    i + Len(MkvExt) - 1 <= Len(src_path)
      /\ SubSeq(src_path, i, i + Len(MkvExt) - 1) = MkvExt

\* event.src_path.endswith('.mkv')
MatchesFilter(src_path) == EndsWith(src_path, MkvExt)

\* on_created returns at once for a directory and for a name the filter rejects
StartsProbe(e) == ~e.is_directory /\ MatchesFilter(e.src_path)

\* on_created runs wait_until_file_is_ready and process_file itself, on the
\* Observer's thread: that Observer's next event is handled when it has
\* returned
HandlerIdle(cs) == cs = {}

\* open(file_path, 'rb'): fails on a missing entry, on a directory, and on a
\* file a writer holds exclusively
OpenSucceeds(state, isdir, excl) ==
  /\ ~isdir
  /\ \/ state = "closed"
     \/ state = "writing" /\ ~excl

\* the folder entry a path names
EntryOf(path) == CHOOSE n \in Names : SrcPath(n) = path

\* a timestamp taken when the file was detected
ProcessFileTimestampAtDetection(c, now) == c.detectedAt

\* datetime.datetime.now() in process_file
ProcessFileTimestamp(c, now) == now

\* f"{os.path.splitext(file_name)[0]}_{timestamp}.mov"
OutputFileName(file_name, ts) ==
  SplitextRoot(file_name) \o <<"_">> \o Strftime(ts) \o MovExt

\* a process_file without the except clause
ConversionRaisesUncaught(code) == code # 0

\* whether subprocess.run's CalledProcessError leaves process_file: it is
\* caught and logged
ConversionRaises(code) == FALSE

LogEntry(level, msg, path, detail) ==
  [level |-> level, msg |-> msg, file_path |-> path, detail |-> detail]

\* the thread of session i's Observer takes the next event and calls
\* on_created
Dispatch(i) ==
  /\ sessions[i].obs = "running"
  /\ sessions[i].queue # << >>
  /\ HandlerIdle(CallsOf(i))
  /\ LET e == Head(sessions[i].queue) IN
       /\ sessions' = [sessions EXCEPT ![i].queue = Tail(@)]
       /\ IF StartsProbe(e)
          THEN /\ calls' = calls \cup
                    {[obs |-> i, path |-> e.src_path,
                      pc |-> "probe", detectedAt |-> clock,
                      readyAt |-> NoClock, wake |-> NoClock,
                      output |-> << >>]}
               /\ log' = log \cup
                    {LogEntry("info", "Detected creation", e.src_path, << >>)}
          ELSE /\ calls' = calls
               /\ log' = log
  /\ UNCHANGED << envVars, clock, nEvents, fsVars, uiVars, ready, playing,
                  nFailed >>

\* wait_until_file_is_ready: the open succeeds and the method returns True
ProbeSucceeds(c) ==
  /\ c.pc = "probe"
  /\ OpenSucceeds(fs[EntryOf(c.path)], IsDir(EntryOf(c.path)), exclusive)
  /\ calls' = (calls \ {c}) \cup {[c EXCEPT !.pc = "ready", !.readyAt = clock]}
  /\ ready' = [ready EXCEPT ![EntryOf(c.path)] = @ + 1]
  /\ log' = log \cup {LogEntry("info", "is ready for processing", c.path, << >>)}
  /\ UNCHANGED << envVars, clock, nEvents, fsVars, uiVars, sessions, playing, nFailed >>

\* wait_until_file_is_ready: the open raises IOError, which is logged, and
\* the method goes to sleep
ProbeFails(c) ==
  /\ c.pc = "probe"
  /\ ~OpenSucceeds(fs[EntryOf(c.path)], IsDir(EntryOf(c.path)), exclusive)
  /\ nEvents < MaxEvents
  /\ nEvents' = nEvents + 1
  /\ calls' = (calls \ {c}) \cup
                 {[c EXCEPT !.pc = "sleep",
                            !.wake = AddSeconds(clock, PollInterval)]}
  /\ log' = log \cup {LogEntry("info", "Waiting for file", c.path, << >>)}
  /\ UNCHANGED << envVars, clock, fsVars, uiVars, sessions,
                  ready, playing, nFailed >>

\* time.sleep(10) returns, no earlier than ten seconds after it was called,
\* and the method goes round its loop
SleepEnds(c) ==
  /\ c.pc = "sleep"
  /\ clock' = IF ClockLeq(c.wake, clock) THEN clock ELSE c.wake
  /\ calls' = (calls \ {c}) \cup {[c EXCEPT !.pc = "probe", !.wake = NoClock]}
  /\ UNCHANGED << envVars, nEvents, fsVars, uiVars, sessions,
                  ready, log, playing, nFailed >>

\* process_file up to launching ffmpeg: the output path is made
ProcessFileStart(c) ==
  /\ c.pc = "ready"
  /\ LET file_name == Basename(c.path)
         timestamp == ProcessFileTimestamp(c, clock)
         output_path == PathJoin(MovOutput, OutputFileName(file_name, timestamp))
     IN  calls' = (calls \ {c}) \cup
                     {[c EXCEPT !.pc = "ffmpeg", !.output = output_path]}
  /\ UNCHANGED << envVars, clock, nEvents, fsVars, uiVars, sessions, ready, log, playing, nFailed >>

\* ffmpeg exits and process_file finishes
FfmpegExit(c) ==
  /\ c.pc = "ffmpeg"
  /\ calls' = calls \ {c}
  /\ \E code \in {0, 1} :
       /\ nFailed' = IF code = 0 THEN nFailed ELSE nFailed + 1
       /\ IF ConversionRaises(code)
          THEN /\ sessions' = [sessions EXCEPT ![c.obs].obs = "crashed"]
               /\ log' = log
               /\ playing' = playing
          ELSE /\ sessions' = sessions
               /\ log' = log \cup
                    {IF code = 0
                     THEN LogEntry("info", "Successfully converted", c.path,
                                   c.output)
                     ELSE LogEntry("error", "Failed to convert", c.path,
                                   <<"returned non-zero exit status", code>>)}
               /\ playing' = IF code = 0 /\ variant = "viewerv2"
                             THEN c.output ELSE playing
  /\ UNCHANGED << envVars, clock, nEvents, fsVars, uiVars,
                  ready >>

(* -------------------------- the specification -------------------------- *)
Next ==
  \/ RunConversion
  \/ TkAfterCallback
  \/ Tick
  \/ \E i \in Sessions : BackgroundConversionStart(i)
  \/ \E i \in Sessions : SetupWatchdogStart(i)
  \/ \E i \in Sessions : ExecuteMakemkv(i)
  \/ \E i \in Sessions : MakemkvExit(i)
  \/ \E i \in Sessions : JoinAndPostComplete(i)
  \/ \E i \in Sessions : SleepLoopInterrupted(i)
  \/ \E i \in Sessions : ObserverThreadExit(i)
  \/ \E i \in Sessions : ObserverJoinReturn(i)
  \/ \E i \in Sessions : Dispatch(i)
  \/ \E n \in Names : CreateEntry(n)
  \/ \E n \in Names : CloseFile(n)
  \/ \E n \in Names : DeleteEntry(n)
  \/ \E c \in calls : ProbeSucceeds(c)
  \/ \E c \in calls : ProbeFails(c)
  \/ \E c \in calls : SleepEnds(c)
  \/ \E c \in calls : ProcessFileStart(c)
  \/ \E c \in calls : FfmpegExit(c)

Spec == Init /\ [][Next]_vars

(* ------------------------------ the claims ----------------------------- *)
\* the regular files of the name set whose name ends in ".mkv", written out
MkvFiles ==
  { <<"m", "o", "v", "i", "e", ".", "m", "k", "v">>, <<".", "m", "k", "v">> }
MkvFilePaths == { MkvOutput \o <<"/">> \o n : n \in MkvFiles }
PartName == <<"m", "o", "v", "i", "e", ".", "m", "k", "v", ".", "p">>
SubDirName == <<"s", ".", "m", "k", "v">>

\* the steps the program takes by itself, without the user, the writers, the
\* clock or an exception from outside
ProgramStep ==
  \/ TkAfterCallback
  \/ \E i \in Sessions : BackgroundConversionStart(i)
  \/ \E i \in Sessions : SetupWatchdogStart(i)
  \/ \E i \in Sessions : ExecuteMakemkv(i)
  \/ \E i \in Sessions : MakemkvExit(i)
  \/ \E i \in Sessions : JoinAndPostComplete(i)
  \/ \E i \in Sessions : ObserverThreadExit(i)
  \/ \E i \in Sessions : ObserverJoinReturn(i)
  \/ \E i \in Sessions : Dispatch(i)
  \/ \E c \in calls : ProbeSucceeds(c)
  \/ \E c \in calls : ProbeFails(c)
  \/ \E c \in calls : SleepEnds(c)
  \/ \E c \in calls : ProcessFileStart(c)
  \/ \E c \in calls : FfmpegExit(c)

\* the completion message has been handed to the UI
CompletePosted ==
  \/ status_label = CompleteMessage
  \/ \E i \in 1..Len(afterQueue) : afterQueue[i] = CompleteMessage

\* nothing is left to do in sessions that are all still watching: every rip
\* has ended, every file is closed, no event is queued and no handler call
\* runs
Settled ==
  /\ sessions # << >>
  /\ \A i \in Sessions :
       /\ sessions[i].obs = "running"
       /\ sessions[i].rip \in {"ok", "failed"} \/ variant = "viewerv2"
       /\ sessions[i].queue = << >>
  /\ \A n \in Names : fs[n] # "writing"
  /\ calls = {}

\* C1: once the watching sessions have settled, every matching file created
\* has had exactly one FileReadyEvent per creation.
C1_ExactlyOneReadyPerCreation ==
  Settled => \A n \in MkvFiles : ready[n] = made[n]

\* C2: a FileReadyEvent is never emitted for a file its writer still has
\* open: no step raises a file's event count while the file is being written.
C2_NeverReadyWhileWriting ==
  [][(\A n \in Names : ready'[n] > ready[n] => fs[n] # "writing")]_vars

\* C3: once stop has been requested of an Observer, no probe running on its
\* thread goes on to report its file ready.
C3_NoEventAfterStop ==
  [][(\A c \in calls :
        (c.pc = "probe" /\ sessions[c.obs].obs \in {"stopping", "stopped"})
          => ~\E d \in calls' : d.obs = c.obs /\ d.pc = "ready")]_vars

\* C4: a non-zero exit of the conversion command is logged as an error with
\* a non-empty detail, raises nothing (the Observer's thread lives on in the
\* state it was in) and loses no queued event; and after such a failure an
\* unstopped watcher whose handler has returned takes the next queued event.
C4_FailureIsRecovered ==
  /\ [](\A i \in Sessions :
          ( /\ nFailed >= 1
            /\ sessions[i].obs \notin {"stopping", "stopped"}
            /\ sessions[i].queue # << >>
            /\ CallsOf(i) = {} ) => ENABLED Dispatch(i))
  /\ [][(nFailed' > nFailed =>
           \E c \in calls \ calls' :
             /\ sessions'[c.obs].obs = sessions[c.obs].obs
             /\ sessions'[c.obs].obs # "crashed"
             /\ sessions'[c.obs].queue = sessions[c.obs].queue
             /\ \E l \in log' : /\ l.level = "error"
                                /\ l.file_path = c.path
                                /\ l.detail # << >>)]_vars

\* C4 witness: after a failed conversion a later file has been probed and
\* handed to the transcoder.
C4_Witness ==
  nFailed >= 1 /\ \E c \in calls : c.pc = "ffmpeg"

\* C5: once starting the watch on a missing folder has failed, the session
\* does not launch the rip, and no completion message is posted.
C5_WatchFailureStopsSession ==
  [][(\A i \in Sessions :
        (~dirOK /\ sessions[i].wdpc \notin {"none", "init"}) =>
          /\ ~(sessions[i].rip = "notstarted" /\ sessions'[i].rip = "running")
          /\ Len(afterQueue') <= Len(afterQueue))]_vars

\* C6: only regular files whose name ends in ".mkv" are ever probed, logged
\* or reported ready, and handling the created-event of a directory or of
\* any other file changes nothing of the handler's state.
C6_FilterIgnoresOthers ==
  /\ [](/\ \A c \in calls : c.path \in MkvFilePaths
        /\ \A n \in Names \ MkvFiles : ready[n] = 0
        /\ \A l \in log : l.file_path \in MkvFilePaths \cup {MkvOutput})
  /\ [][(\A i \in Sessions :
           (/\ sessions[i].queue # << >>
            /\ sessions'[i].queue = Tail(sessions[i].queue)
            /\ Head(sessions[i].queue).src_path \notin MkvFilePaths)
           => UNCHANGED handlerVars)]_vars

\* C6 witness: the created-events of a directory named like an .mkv file and
\* of a file with a longer suffix have both been handled, and nothing ran.
C6_Witness ==
  /\ seen[SubDirName] = 1
  /\ seen[PartName] = 1
  /\ \A i \in Sessions : sessions[i].queue = << >>
  /\ \E i \in Sessions : sessions[i].obs = "running"
  /\ calls = {}

\* C7: at most one file is being probed or transcoded at any time.
C7_OneFileAtATime == Cardinality(calls) <= 1

\* reading a timestamp back
IsDigit(ch) == \E d \in 0..9 : DigitChar(d) = ch
DigitValue(ch) == CHOOSE d \in 0..9 : DigitChar(d) = ch
RECURSIVE ParseNum(_)
ParseNum(ds) ==
  IF ds = << >> THEN 0
  ELSE 10 * ParseNum(SubSeq(ds, 1, Len(ds) - 1)) + DigitValue(ds[Len(ds)])
ParseTimestamp(ts) ==
  [Y |-> ParseNum(SubSeq(ts, 1, 4)), Mo |-> ParseNum(SubSeq(ts, 5, 6)),
   D |-> ParseNum(SubSeq(ts, 7, 8)), h |-> ParseNum(SubSeq(ts, 9, 10)),
   mi |-> ParseNum(SubSeq(ts, 11, 12)), s |-> ParseNum(SubSeq(ts, 13, 14))]
\* the stem of a matching name: the name without ".mkv", or the whole name
\* when the name is only that suffix
ExpectedStem(n) ==
  IF n = MkvExt THEN n ELSE SubSeq(n, 1, Len(n) - Len(MkvExt))

\* C8: the output path of a transcode is the output folder, the stem of the
\* input name, "_", fourteen digits and ".mov", and the digits are a clock
\* value read after the readiness probe succeeded.
C8_OutputName ==
  \A c \in calls :
    c.pc = "ffmpeg" =>
      LET o == c.output
          L == Len(o)
          ts == SubSeq(o, L - 17, L - 4)
      IN  /\ L >= 19
          /\ SubSeq(o, L - 3, L) = MovExt
          /\ Len(ts) = 14
          /\ \A i \in 1..14 : IsDigit(ts[i])
          /\ o[L - 18] = "_"
          /\ SubSeq(o, 1, L - 19)
               = MovOutput \o <<"/">> \o ExpectedStem(EntryOf(c.path))
          /\ ClockLeq(c.readyAt, ParseTimestamp(ts))
          /\ ClockLeq(ParseTimestamp(ts), clock)

\* C8 witness: a transcode has started for a file that was detected in 2024
\* and, after a probe retry, found ready in 2025.
C8_Witness ==
  \E c \in calls :
    c.pc = "ffmpeg" /\ c.detectedAt.Y = 2024 /\ c.readyAt.Y = 2025

\* C9: in the programs that set up a watcher, every .mkv file made in the
\* watched folder is seen by an Observer.
C9_NoCreationMissed ==
  variant \in {"v5", "viewerv2"} => \A n \in MkvFiles : seen[n] = made[n]

\* C10: the completion message is never posted before an execute_makemkv has
\* returned; a session whose watcher is set up does not come to rest before
\* its rip was started; and a session whose rip succeeded does not come to
\* rest, with every file handled, without the message having been posted.
C10_CompletionReported ==
  /\ CompletePosted => \E i \in Sessions : sessions[i].rip = "ok"
  /\ \A i \in Sessions :
       (dirOK /\ sessions[i].obs = "running" /\ ~ENABLED ProgramStep)
         => sessions[i].rip # "notstarted"
  /\ \A i \in Sessions :
       (/\ dirOK
        /\ sessions[i].obs = "running"
        /\ sessions[i].rip = "ok"
        /\ sessions[i].queue = << >>
        /\ calls = {}
        /\ \A n \in MkvFiles : ready[n] >= made[n]
        /\ ~ENABLED ProgramStep)
       => CompletePosted

====
